---- MODULE Spec2Model ----
(***************************************************************************)
(* Model of the ProctorExam v3 client (src/api.go).  The file holds two    *)
(* copies of the client: the first (lines 1-329) with the six resource     *)
(* methods, the second (lines 331-522) with ListExams.  Definitions that   *)
(* model the second copy carry the suffix 2.                               *)
(*                                                                         *)
(* Strings that are concatenated, sorted or parsed are sequences of byte   *)
(* codes; labels that are only compared (operation names, error values,    *)
(* JSON envelope keys, diagnostic lines) are TLA+ strings.                 *)
(***************************************************************************)
EXTENDS Integers, Sequences, FiniteSets, TLC

VARIABLES client, server, clock, last

vars == <<client, server, clock, last>>

(***************************************************************************)
(* Bounds of the model.                                                    *)
(***************************************************************************)
\* the longest list of records in a response
MaxItems == 2
\* the latest clock time, in milliseconds
MaxClock == 1000
\* the range of the nonce, 10000000000000000 at line 193
NonceRange == 97

(***************************************************************************)
(* Byte strings.                                                           *)
(***************************************************************************)
Qm == 63
Eq == 61
Amp == 38
Digit0 == 48

K_nonce == <<110, 111, 110, 99, 101>>
K_timestamp == <<116, 105, 109, 101, 115, 116, 97, 109, 112>>
K_signature == <<115, 105, 103, 110, 97, 116, 117, 114, 101>>
K_id == <<105, 100>>
K_institute_id == <<105, 110, 115, 116, 105, 116, 117, 116, 101, 95, 105, 100>>
K_student_session_id ==
  <<115, 116, 117, 100, 101, 110, 116, 95, 115, 101, 115, 115, 105, 111, 110, 95, 105, 100>>

Min(a, b) == IF a <= b THEN a ELSE b

\* strconv.FormatUint(n, 10) and strconv.Itoa(n) for n >= 0: the decimal digits
RECURSIVE FormatUint(_)
FormatUint(n) ==
  IF n < 10 THEN <<Digit0 + n>>
  ELSE Append(FormatUint(n \div 10), Digit0 + (n % 10))

\* Go's < on strings: byte-wise lexicographic order
Less(a, b) ==
  \E i \in 1..(Min(Len(a), Len(b)) + 1) :
    /\ \A j \in 1..(i - 1) : a[j] = b[j]
    /\ \/ i > Len(a) /\ i <= Len(b)
       \/ i <= Len(a) /\ i <= Len(b) /\ a[i] < b[i]

RECURSIVE Insert(_, _)
Insert(x, s) ==
  IF s = <<>> THEN <<x>>
  ELSE IF Less(s[1], x) THEN <<s[1]>> \o Insert(x, Tail(s))
  ELSE <<x>> \o s

\* a mutation of sort.Strings: the keys stay in map-iteration order
SortStringsNone(keys) == keys

\* sort.Strings(keys): ascending byte-wise order
RECURSIVE SortStrings(_)
SortStrings(keys) ==
  IF keys = <<>> THEN <<>>
  ELSE Insert(keys[1], SortStrings(Tail(keys)))

\* the sequences that hold each element of S once
RECURSIVE Perms(_)
Perms(S) ==
  IF S = {} THEN {<<>>}
  ELSE UNION {{<<x>> \o q : q \in Perms(S \ {x})} : x \in S}

\* the orders in which `for k := range m` can visit the keys of a map
RangeOrders(m) == Perms(DOMAIN m)

(***************************************************************************)
(* Signer.                                                                 *)
(***************************************************************************)
\* lines 104-111: the first pair is written bare, every later pair after a ?
RECURSIVE BaseStringFrom(_, _, _)
BaseStringFrom(keys, params, baseString) ==
  IF keys = <<>> THEN baseString
  ELSE BaseStringFrom(Tail(keys), params,
         IF Len(baseString) = 0
         THEN keys[1] \o <<Eq>> \o params[keys[1]]
         ELSE baseString \o <<Qm>> \o keys[1] \o <<Eq>> \o params[keys[1]])

\* lines 436-439: every pair is written after a ?
RECURSIVE BaseStringFrom2(_, _, _)
BaseStringFrom2(keys, params, baseString) ==
  IF keys = <<>> THEN baseString
  ELSE BaseStringFrom2(Tail(keys), params,
         baseString \o <<Qm>> \o keys[1] \o <<Eq>> \o params[keys[1]])

\* hex.EncodeToString of the digest, lowercase
HexDigit(n) == IF n < 10 THEN Digit0 + n ELSE 87 + n
EncodeToString(h) ==
  <<HexDigit((h \div 4096) % 16), HexDigit((h \div 256) % 16),
    HexDigit((h \div 16) % 16), HexDigit(h % 16)>>

\* hmac.New(sha256.New, key); Write(msg); Sum(nil): a 16-bit keyed rolling
\* hash stands for HMAC-SHA256.  It is a deterministic function of the key
\* and of the message bytes in their order; no property of SHA-256 beyond
\* that is assumed.
Roll(h, bytes) ==
  LET R[i \in 0..Len(bytes)] ==
        IF i = 0 THEN h ELSE (R[i - 1] * 31 + bytes[i]) % 65536
  IN  R[Len(bytes)]
Hmac(key, msg) == Roll(Roll(Roll(7, key), <<0>>), msg)

\* lines 97-121; order is the order in which range visited the map
baseString(params, order) == BaseStringFrom(SortStrings(order), params, <<>>)
signParams(c, params, order) ==
  EncodeToString(Hmac(c.apiSecretKey, baseString(params, order)))

\* lines 429-449
baseString2(params, order) == BaseStringFrom2(SortStrings(order), params, <<>>)
signParams2(c, params, order) ==
  EncodeToString(Hmac(c.apiSecretKey, baseString2(params, order)))

(***************************************************************************)
(* Nonce and timestamp.                                                    *)
(***************************************************************************)
MsPerSec == 1000

\* rand.Seed(seed); rand.Int63n(n): the first draw of a generator that was
\* just seeded is a fixed function of the seed
Int63nSeeded(seed, n) == (seed * 31 + 17) % n

\* lines 186-189 (and 451-454); now is the clock in milliseconds and
\* time.Now().Unix() its whole seconds
random(now, min, max) == Int63nSeeded(now \div MsPerSec, max - min) + min

\* lines 191-198
getBaseParams(now) ==
  (K_nonce :> FormatUint(random(now, 0, NonceRange)))
    @@ (K_timestamp :> FormatUint(now))

(***************************************************************************)
(* Request builder.                                                        *)
(***************************************************************************)
NoParams == [k \in {} |-> <<>>]

\* params[k] of a Go map: the empty string for a missing key
Get(params, k) == IF k \in DOMAIN params THEN params[k] ELSE <<>>

\* lines 139-144: &key=value for each extra query parameter, in range order
RECURSIVE AppendQuery(_, _, _)
AppendQuery(target, queryParams, qorder) ==
  IF qorder = <<>> THEN target
  ELSE AppendQuery(target \o <<Amp>> \o qorder[1] \o <<Eq>> \o queryParams[qorder[1]],
                   queryParams, Tail(qorder))

\* a mutation of newRequest: the arguments of the format are in the wrong
\* order, the timestamp is written as the nonce and the nonce as the timestamp
newRequestSwapped(c, path, params, queryParams, order, qorder) ==
  LET signature == signParams(c, params, order)
      target == K_nonce \o <<Eq>> \o Get(params, K_timestamp)
                  \o <<Amp>> \o K_timestamp \o <<Eq>> \o Get(params, K_nonce)
                  \o <<Amp>> \o K_signature \o <<Eq>> \o signature
  IN  [path     |-> path,
       rawQuery |-> AppendQuery(target, queryParams, qorder),
       signed   |-> params,
       out      |-> <<>>]

\* lines 123-158 with a nil body: the request as its path and the query
\* string that follows the ? of the target
newRequest(c, path, params, queryParams, order, qorder) ==
  LET signature == signParams(c, params, order)
      target == K_nonce \o <<Eq>> \o Get(params, K_nonce)
                  \o <<Amp>> \o K_timestamp \o <<Eq>> \o Get(params, K_timestamp)
                  \o <<Amp>> \o K_signature \o <<Eq>> \o signature
  IN  [path     |-> path,
       rawQuery |-> AppendQuery(target, queryParams, qorder),
       signed   |-> params,
       out      |-> <<>>]

\* lines 91-93
newGetRequest(c, path, params, queryParams, order, qorder) ==
  newRequest(c, path, params, queryParams, order, qorder)

\* lines 369-405 with a nil body: nonce and timestamp are made here
newRequest2(c, path, now, order) ==
  LET ts == FormatUint(now)
      nonce == FormatUint(random(now, 0, NonceRange))
      params == (K_nonce :> nonce) @@ (K_timestamp :> ts)
      signature == signParams2(c, params, order)
  IN  [path     |-> path,
       rawQuery |-> K_nonce \o <<Eq>> \o nonce
                      \o <<Amp>> \o K_timestamp \o <<Eq>> \o ts
                      \o <<Amp>> \o K_signature \o <<Eq>> \o signature,
       signed   |-> params,
       out      |-> <<"baseString", "Signature">>]

(***************************************************************************)
(* The remote end.                                                         *)
(***************************************************************************)
\* the identifiers of src/api_test.go, lines 20-26
idInst == 17
idUser == 11
idExam == 17
idStudent == 804
idStudSession == 4

\* the ids of the records the remote end can send
RecordIDs == {idUser, idStudent}

RECURSIVE SeqsUpTo(_, _)
SeqsUpTo(S, n) ==
  IF n = 0 THEN {<<>>}
  ELSE LET shorter == SeqsUpTo(S, n - 1)
       IN  shorter \cup {Append(q, x) : q \in {r \in shorter : Len(r) = n - 1}, x \in S}

\* What the remote end does with a request.  ok = FALSE: httpClient.Do returns
\* an error and no response.  Otherwise a response with a status code and a
\* body: bytes that are no JSON ("garbage"), a stream that breaks while it is
\* read ("readerr"), a JSON object with one key holding a list of records or
\* one record ("object"; ids are the records' id fields; keyed says that the
\* key is the one the API gives the endpoint, otherwise it is "error"), or a
\* JSON array of records ("array").
NoBody == [kind |-> "none", keyed |-> FALSE, isList |-> FALSE, ids |-> <<>>]
Bodies ==
  {[kind |-> k, keyed |-> FALSE, isList |-> FALSE, ids |-> <<>>] : k \in {"garbage", "readerr"}}
    \cup {[kind |-> "object", keyed |-> k, isList |-> TRUE, ids |-> q] :
            k \in BOOLEAN, q \in SeqsUpTo(RecordIDs, MaxItems)}
    \cup {[kind |-> "object", keyed |-> k, isList |-> FALSE, ids |-> <<i>>] :
            k \in BOOLEAN, i \in RecordIDs}
    \cup {[kind |-> "array", keyed |-> FALSE, isList |-> TRUE, ids |-> q] :
            q \in SeqsUpTo(RecordIDs, MaxItems)}
Statuses == {200, 500}
Servers ==
  {[ok |-> FALSE, status |-> 0, body |-> NoBody]}
    \cup {[ok |-> TRUE, status |-> st, body |-> b] : st \in Statuses, b \in Bodies}

\* the key under which the API wraps the payload of each endpoint
WireKey(template) ==
  CASE template = "/api/v3/exams" -> "exams"
    [] template = "/api/v3/exams/%d" -> "exam"
    [] template = "/api/v3/institutes/%d/users" -> "users"
    [] template = "/api/v3/institutes/%d/users/%d" -> "user"
    [] template = "/api/v3/exams/%d/show_student" -> "student"
    [] template = "/api/v3/exams/%d/index_students" -> "students"
    [] OTHER -> "error"

\* c.httpClient.Do(req), lines 167 and 410: the response to req
Respond(srv, req) ==
  [ok     |-> srv.ok,
   status |-> srv.status,
   body   |-> [kind   |-> srv.body.kind,
               key    |-> IF srv.body.kind = "object" /\ srv.body.keyed
                          THEN WireKey(req.path.template)
                          ELSE IF srv.body.kind = "object" THEN "error" ELSE "",
               isList |-> srv.body.isList,
               ids    |-> srv.body.ids]]

(***************************************************************************)
(* Transport and decoder.                                                  *)
(***************************************************************************)
\* The destination v of a decode: shape "list" is a wrapper struct with one
\* slice field tagged tag (lines 27-29, 59-61, 78-80), shape "one" a wrapper
\* with one struct field tagged tag (lines 39-41, 54-56, 73-75), shape "slice"
\* the bare []Exam of lines 356-358 and 462.  value is what the destination
\* holds, as the ids of its records; the zero record has id 0.
Dest(shape, tag) ==
  [shape |-> shape, tag |-> tag, value |-> IF shape = "one" THEN <<0>> ELSE <<>>]

\* records decoded into a struct without exported fields are zero records
ZeroRecords(q) == [i \in 1..Len(q) |-> 0]

\* a mutation of the decoder: the last element of a list is lost and a single
\* record is left zero
DecodeDropLast(body, drained, dest) ==
  CASE drained -> [err |-> "EOF", value |-> dest.value]
    [] body.kind = "readerr" -> [err |-> "read", value |-> dest.value]
    [] body.kind = "garbage" -> [err |-> "syntax", value |-> dest.value]
    [] body.kind = "array" ->
         IF dest.shape = "slice"
         THEN [err |-> "nil", value |-> ZeroRecords(body.ids)]
         ELSE [err |-> "type", value |-> dest.value]
    [] OTHER ->
         IF dest.shape = "slice" THEN [err |-> "type", value |-> dest.value]
         ELSE IF body.key # dest.tag THEN [err |-> "nil", value |-> dest.value]
         ELSE IF body.isList = (dest.shape = "list")
              THEN [err |-> "nil",
                    value |-> IF body.isList
                              THEN SubSeq(body.ids, 1, Len(body.ids) - 1)
                              ELSE <<0>>]
              ELSE [err |-> "type", value |-> dest.value]

\* json.NewDecoder(resp.Body).Decode(v), lines 182 and 423; drained says that
\* the body was read to its end before.  A key the destination has no field
\* for is skipped without an error.
Decode(body, drained, dest) ==
  CASE drained -> [err |-> "EOF", value |-> dest.value]
    [] body.kind = "readerr" -> [err |-> "read", value |-> dest.value]
    [] body.kind = "garbage" -> [err |-> "syntax", value |-> dest.value]
    [] body.kind = "array" ->
         IF dest.shape = "slice"
         THEN [err |-> "nil", value |-> ZeroRecords(body.ids)]
         ELSE [err |-> "type", value |-> dest.value]
    [] OTHER ->
         IF dest.shape = "slice" THEN [err |-> "type", value |-> dest.value]
         ELSE IF body.key # dest.tag THEN [err |-> "nil", value |-> dest.value]
         ELSE IF body.isList = (dest.shape = "list")
              THEN [err |-> "nil", value |-> body.ids]
              ELSE [err |-> "type", value |-> dest.value]

\* the outcome of do: what it wrote, whether it returned a response, its
\* error, the destination, the response the transport delivered, the bodies
\* the transport opened and the Close calls that ran
Outcome(out, resp, err, value, got, opened, closed) ==
  [out |-> out, resp |-> resp, err |-> err, value |-> value, got |-> got,
   opened |-> opened, closed |-> closed]

\* a mutation of do: the body is closed only after a successful decode
doLeak(req, srv, dest) ==
  LET got == Respond(srv, req)
      d == Decode(got.body, FALSE, dest)
  IN  IF ~got.ok
      THEN Outcome(<<"reqDump">>, FALSE, "transport", dest.value, got, 0, 0)
      ELSE Outcome(<<"reqDump">>, TRUE, d.err, d.value, got, 1,
                   IF d.err = "nil" THEN 1 ELSE 0)

\* lines 160-184.  DumpRequest of a GET request without a body does not fail.
do(req, srv, dest) ==
  LET out == <<"reqDump">>
      got == Respond(srv, req)
  IN  IF ~got.ok
      THEN Outcome(out, FALSE, "transport", dest.value, got, 0, 0)
      ELSE LET deferred == <<"resp.Body.Close">>
               d == Decode(got.body, FALSE, dest)
           IN  Outcome(out, TRUE, d.err, d.value, got, 1, Len(deferred))

\* lines 407-425 with formatRequest, lines 468-496
do2(req, srv, dest) ==
  LET out == <<"REQUEST">>
      got == Respond(srv, req)
  IN  IF ~got.ok
      THEN Outcome(out, FALSE, "transport", dest.value, got, 0, 0)
      ELSE LET deferred == <<"resp.Body.Close">>
           IN  IF got.body.kind = "readerr"
               THEN Outcome(out, FALSE, "read", dest.value, got, 1, Len(deferred))
               ELSE LET d == Decode(got.body, TRUE, dest)
                    IN  Outcome(Append(out, "RESPONSE"), TRUE, d.err, d.value, got,
                                1, Len(deferred))

(***************************************************************************)
(* Resource methods.  Each action is one call of the method, from the      *)
(* building of its parameters to its return; last records the call.        *)
(***************************************************************************)
\* the call of main, line 327
mainExam == 70
mainSession == 804

ExamIDs == {idExam, mainExam}
StudentArgs == {<<idExam, idStudSession>>, <<mainExam, mainSession>>}

NoPath == [template |-> "", ids |-> <<>>]

NoCall ==
  [op |-> "none", args |-> <<>>, t |-> 0, params |-> NoParams, path |-> NoPath,
   rawQuery |-> <<>>, sent |-> FALSE, dest |-> Dest("list", ""),
   got |-> [ok |-> FALSE, status |-> 0,
            body |-> [kind |-> "none", key |-> "", isList |-> FALSE, ids |-> <<>>]],
   doErr |-> "nil", err |-> "nil", value |-> <<>>, result |-> <<>>,
   opened |-> 0, closed |-> 0, out |-> <<>>]

\* the record of a call that started at time clock, built req and got r from
\* do (or do2), and returned result and err after writing out
Called(op, args, req, dest, r, result, err, out) ==
  [op |-> op, args |-> args, t |-> clock, params |-> req.signed, path |-> req.path,
   rawQuery |-> req.rawQuery, sent |-> TRUE, dest |-> dest, got |-> r.got,
   doErr |-> r.err, err |-> err, value |-> r.value, result |-> result,
   opened |-> r.opened, closed |-> r.closed, out |-> out]

\* lines 200-211
Exams ==
  /\ \E params \in {getBaseParams(clock)} :
     \E order \in RangeOrders(params) :
     \E req \in {newGetRequest(client, [template |-> "/api/v3/exams", ids |-> <<>>],
                               params, NoParams, order, <<>>)} :
     \E dest \in {Dest("list", "exams")} :
     \E r \in {do(req, server, dest)} :
       last' = Called("Exams", <<>>, req, dest, r, r.value, r.err, r.out)
  /\ UNCHANGED <<client, server, clock>>

\* lines 213-226
Exam ==
  /\ \E id \in ExamIDs :
     \E params \in {(K_id :> FormatUint(id)) @@ getBaseParams(clock)} :
     \E order \in RangeOrders(params) :
     \E req \in {newGetRequest(client,
                               [template |-> "/api/v3/exams/%d", ids |-> <<FormatUint(id)>>],
                               params, NoParams, order, <<>>)} :
     \E dest \in {Dest("one", "exam")} :
     \E r \in {do(req, server, dest)} :
       last' = Called("Exam", <<id>>, req, dest, r, r.value, r.err, r.out)
  /\ UNCHANGED <<client, server, clock>>

\* lines 228-241
Users ==
  /\ \E instituteID \in {idInst} :
     \E params \in {(K_institute_id :> FormatUint(instituteID)) @@ getBaseParams(clock)} :
     \E order \in RangeOrders(params) :
     \E req \in {newGetRequest(client,
                               [template |-> "/api/v3/institutes/%d/users",
                                ids |-> <<FormatUint(instituteID)>>],
                               params, NoParams, order, <<>>)} :
     \E dest \in {Dest("list", "users")} :
     \E r \in {do(req, server, dest)} :
       last' = Called("Users", <<instituteID>>, req, dest, r, r.value, r.err, r.out)
  /\ UNCHANGED <<client, server, clock>>

\* lines 243-257; the two assignments of lines 247-248 are comments
ShowUser ==
  /\ \E instituteID \in {idInst}, userID \in {idUser} :
     \E params \in {getBaseParams(clock)} :
     \E order \in RangeOrders(params) :
     \E req \in {newGetRequest(client,
                               [template |-> "/api/v3/institutes/%d/users/%d",
                                ids |-> <<FormatUint(instituteID), FormatUint(userID)>>],
                               params, NoParams, order, <<>>)} :
     \E dest \in {Dest("one", "user")} :
     \E r \in {do(req, server, dest)} :
       last' = Called("ShowUser", <<instituteID, userID>>, req, dest, r,
                      r.value, r.err, r.out)
  /\ UNCHANGED <<client, server, clock>>

\* lines 259-274
ShowStudent ==
  /\ \E a \in StudentArgs :
     \E examID \in {a[1]}, sessionID \in {FormatUint(a[2])} :
     \E params \in {(K_id :> FormatUint(examID))
                       @@ (K_student_session_id :> sessionID)
                       @@ getBaseParams(clock)} :
     \E queryParams \in {(K_student_session_id :> sessionID)} :
     \E order \in RangeOrders(params), qorder \in RangeOrders(queryParams) :
     \E req \in {newGetRequest(client,
                               [template |-> "/api/v3/exams/%d/show_student",
                                ids |-> <<FormatUint(examID)>>],
                               params, queryParams, order, qorder)} :
     \E dest \in {Dest("one", "student")} :
     \E r \in {do(req, server, dest)} :
       last' = Called("ShowStudent", a, req, dest, r, r.value, r.err, r.out)
  /\ UNCHANGED <<client, server, clock>>

\* lines 276-293: the params are printed before the request, the decoded
\* wrapper after it, and the error of do is dropped
IndexStudents ==
  /\ \E examID \in ExamIDs :
     \E params \in {(K_id :> FormatUint(examID)) @@ getBaseParams(clock)} :
     \E order \in RangeOrders(params) :
     \E req \in {newGetRequest(client,
                               [template |-> "/api/v3/exams/%d/index_students",
                                ids |-> <<FormatUint(examID)>>],
                               params, NoParams, order, <<>>)} :
     \E dest \in {Dest("list", "students")} :
     \E r \in {do(req, server, dest)} :
       last' = Called("IndexStudents", <<examID>>, req, dest, r, r.value, "nil",
                      <<"params">> \o r.out \o <<"Users">>)
  /\ UNCHANGED <<client, server, clock>>

\* lines 456-465
ListExams ==
  /\ \E order \in RangeOrders(getBaseParams(clock)) :
     \E req \in {newRequest2(client, [template |-> "/api/v3/exams", ids |-> <<>>],
                             clock, order)} :
     \E dest \in {Dest("slice", "")} :
     \E r \in {do2(req, server, dest)} :
       last' = Called("ListExams", <<>>, req, dest, r, r.value, r.err,
                      req.out \o r.out)
  /\ UNCHANGED <<client, server, clock>>

\* newGetRequest called on its own, lines 91-93, with parameter sets that hold
\* or lack a nonce and a timestamp; no request is sent
DirectParams ==
  UNION {[D -> {FormatUint(idStudSession)}] : D \in SUBSET {K_nonce, K_timestamp}}
DirectQuery == UNION {[D -> {FormatUint(idUser)}] : D \in SUBSET {K_nonce}}

NewGetRequestCall ==
  /\ \E params \in DirectParams, queryParams \in DirectQuery :
     \E order \in RangeOrders(params), qorder \in RangeOrders(queryParams) :
     \E req \in {newGetRequest(client, [template |-> "/api/v3/exams", ids |-> <<>>],
                               params, queryParams, order, qorder)} :
       last' = [NoCall EXCEPT !.op = "newGetRequest", !.t = clock,
                              !.params = req.signed, !.path = req.path,
                              !.rawQuery = req.rawQuery, !.out = req.out]
  /\ UNCHANGED <<client, server, clock>>

\* time passes: half a second or a second
Tick ==
  /\ \E d \in {MsPerSec \div 2, MsPerSec} :
       /\ clock + d <= MaxClock
       /\ clock' = clock + d
  /\ UNCHANGED <<client, server, last>>

\* lines 301-307: the client is built once, its credentials come from the
\* environment; the remote end is whatever it is
Init ==
  /\ client = [apiKey |-> <<107, 49>>, apiSecretKey |-> <<115, 49>>]
  /\ server \in Servers
  /\ clock = 0
  /\ last = NoCall

Next ==
  \/ Exams
  \/ Exam
  \/ Users
  \/ ShowUser
  \/ ShowStudent
  \/ IndexStudents
  \/ ListExams
  \/ Tick

Spec == Init /\ [][Next]_vars

\* the program, and newGetRequest called with any parameter sets; the
\* request builder does not read the response, so the remote end is one that
\* fails or answers with bytes that are no JSON
InitFn ==
  /\ Init
  /\ server.body.kind \in {"none", "garbage"}

NextFn ==
  \/ Next
  \/ NewGetRequestCall

SpecFn == InitFn /\ [][NextFn]_vars

(***************************************************************************)
(* Reading a target back, as the receiver of the request does.             *)
(***************************************************************************)
Has(s, b) == \E i \in 1..Len(s) : s[i] = b
IndexByte(s, b) == CHOOSE i \in 1..Len(s) : s[i] = b /\ \A j \in 1..(i - 1) : s[j] # b

RECURSIVE Split(_, _)
Split(s, sep) ==
  IF ~Has(s, sep) THEN <<s>>
  ELSE LET i == IndexByte(s, sep)
       IN  <<SubSeq(s, 1, i - 1)>> \o Split(SubSeq(s, i + 1, Len(s)), sep)

\* key=value, cut at the first =
KeyValue(part) ==
  IF ~Has(part, Eq) THEN <<part, <<>>>>
  ELSE LET i == IndexByte(part, Eq)
       IN  <<SubSeq(part, 1, i - 1), SubSeq(part, i + 1, Len(part))>>

\* the query parameters of a raw query, in their order
ParseQuery(rawQuery) ==
  LET parts == Split(rawQuery, Amp)
  IN  [i \in 1..Len(parts) |-> KeyValue(parts[i])]

QueryCount(rawQuery, key) ==
  LET q == ParseQuery(rawQuery)
  IN  Cardinality({i \in 1..Len(q) : q[i][1] = key})

\* the first value of key, the empty string when there is none
QueryGet(rawQuery, key) ==
  LET q == ParseQuery(rawQuery)
      at == {i \in 1..Len(q) : q[i][1] = key}
  IN  IF at = {} THEN <<>>
      ELSE q[CHOOSE i \in at : \A j \in at : i <= j][2]

(***************************************************************************)
(* Properties.                                                             *)
(***************************************************************************)
ListOps == {"Exams", "Users", "IndexStudents"}
ItemOps == {"Exam", "ShowUser", "ShowStudent"}
ResourceOps == ListOps \cup ItemOps

\* the string a call signed, had range visited its parameters in order o
SignedString(call, o) ==
  IF call.op = "ListExams" THEN baseString2(call.params, o)
  ELSE baseString(call.params, o)

\* the signature of a call, had range visited its parameters in order o
SignatureFor(call, o) ==
  IF call.op = "ListExams" THEN signParams2(client, call.params, o)
  ELSE signParams(client, call.params, o)

\* the keys of a parameter set in ascending byte-wise order
Ascending(params) ==
  CHOOSE q \in Perms(DOMAIN params) :
    \A i, j \in 1..Len(q) : i < j => Less(q[i], q[j])

\* ?key=value for each key of q, concatenated
RECURSIVE QuestionPairs(_, _)
QuestionPairs(q, params) ==
  IF q = <<>> THEN <<>>
  ELSE <<Qm>> \o q[1] \o <<Eq>> \o params[q[1]] \o QuestionPairs(Tail(q), params)

\* C1: for every non-empty parameter set a call signs, the canonical string
\* fed to the HMAC is ?key=value for each key in ascending byte-wise order,
\* concatenated, so it starts with a ?.
CounterC1 ==
  (last.op # "none" /\ DOMAIN last.params # {}) =>
    \A o \in RangeOrders(last.params) :
      SignedString(last, o) = QuestionPairs(Ascending(last.params), last.params)

\* C2: the signature a call put into its URL is the signature of its
\* parameter set under the client's secret for every order in which the keys
\* can be visited: it is a function of the key-to-value mapping and the
\* secret only.
TheoremC2 ==
  last.op # "none" =>
    \A o \in RangeOrders(last.params) :
      QueryGet(last.rawQuery, K_signature) = SignatureFor(last, o)

\* a call signed four parameters, which range can visit in 24 orders
WitnessC2 ==
  /\ last.op = "ShowStudent"
  /\ Cardinality(RangeOrders(last.params)) = 24
  /\ Len(QueryGet(last.rawQuery, K_signature)) = 4

\* C3: two requests built one after the other for the same logical call
\* (same method, same arguments) carry different nonces, whatever the clock
\* times of the two calls.
CounterC3 ==
  [][(/\ last' # last
      /\ last.sent /\ last'.sent
      /\ last'.op = last.op /\ last'.args = last.args)
       => Get(last'.params, K_nonce) # Get(last.params, K_nonce)]_vars

\* the URL carries one non-empty nonce and one non-empty timestamp, those of
\* the signed parameter set
OneNonceOneTimestamp(call) ==
  /\ QueryCount(call.rawQuery, K_nonce) = 1
  /\ QueryCount(call.rawQuery, K_timestamp) = 1
  /\ QueryGet(call.rawQuery, K_nonce) # <<>>
  /\ QueryGet(call.rawQuery, K_timestamp) # <<>>
  /\ K_nonce \in DOMAIN call.params
  /\ K_timestamp \in DOMAIN call.params
  /\ QueryGet(call.rawQuery, K_nonce) = call.params[K_nonce]
  /\ QueryGet(call.rawQuery, K_timestamp) = call.params[K_timestamp]

\* the nonce and the timestamp of the signed set were made during the call
MadeInCall(call) ==
  /\ Get(call.params, K_nonce) = FormatUint(random(call.t, 0, NonceRange))
  /\ Get(call.params, K_timestamp) = FormatUint(call.t)

\* C4 as stated: for every call of newRequest, with any params and any
\* queryParams, the URL carries exactly one nonce and exactly one timestamp,
\* each non-empty, made for this call and equal to those that were signed.
CounterC4 ==
  last.op \in ResourceOps \cup {"newGetRequest"} =>
    OneNonceOneTimestamp(last) /\ MadeInCall(last)

\* C4 as amended: for every call of newRequest that a resource method makes,
\* the URL carries exactly one nonce and exactly one timestamp, each
\* non-empty, equal to those of the signed parameter set, which getBaseParams
\* made during that method call.
TheoremC4 ==
  last.op \in ResourceOps => OneNonceOneTimestamp(last) /\ MadeInCall(last)

\* ShowStudent built a request with an extra query parameter after the clock
\* had moved
WitnessC4 ==
  /\ last.op = "ShowStudent"
  /\ last.t > 0
  /\ QueryCount(last.rawQuery, K_student_session_id) = 1
  /\ Len(ParseQuery(last.rawQuery)) = 4

\* C5: every numeric identifier a resource method puts into its URL path is,
\* as its decimal string, a value of the parameter set it signs.
CounterC5 ==
  last.op \in ResourceOps =>
    \A i \in 1..Len(last.path.ids) :
      \E k \in DOMAIN last.params \ {K_nonce, K_timestamp} :
        last.params[k] = last.path.ids[i]

\* the body cannot be decoded into the destination
Undecodable(body, dest) == Decode(body, FALSE, dest).err # "nil"

\* C6: when the transport fails or the response body cannot be decoded, a
\* resource method returns a non-nil error.
CounterC6 ==
  (/\ last.op \in ResourceOps
   /\ ~last.got.ok \/ Undecodable(last.got.body, last.dest))
    => last.err # "nil"

\* the key of the envelope of each operation, plural for the list operations
EnvelopeKey(op) ==
  CASE op = "Exams" -> "exams"
    [] op = "Users" -> "users"
    [] op = "IndexStudents" -> "students"
    [] op = "Exam" -> "exam"
    [] op = "ShowUser" -> "user"
    [] op = "ShowStudent" -> "student"
    [] OTHER -> ""

\* the remote end answered the call with a well-formed envelope
WellFormed(call) ==
  /\ call.got.ok
  /\ call.got.body.kind = "object"
  /\ call.got.body.key = EnvelopeKey(call.op)
  /\ call.got.body.isList = (call.op \in ListOps)

\* C7: answered with a well-formed envelope, a list operation returns a nil
\* error and the records of the plural key, as many, in the same order and
\* with the same ids; a single-item operation returns the record of the
\* singular key, with the same id.
TheoremC7 ==
  (last.op \in ResourceOps /\ WellFormed(last)) =>
    /\ last.err = "nil"
    /\ last.result = last.got.body.ids

\* IndexStudents returned two records with different ids
WitnessC7 ==
  /\ last.op = "IndexStudents"
  /\ WellFormed(last)
  /\ Len(last.result) = 2
  /\ last.result[1] # last.result[2]

\* C8: whatever the status code of a response, if its body is JSON that
\* parses into the destination then do fills the destination with the
\* decoded value and returns a nil error.
CounterC8 ==
  (last.sent /\ last.got.ok /\ ~Undecodable(last.got.body, last.dest)) =>
    /\ last.doErr = "nil"
    /\ last.value = Decode(last.got.body, FALSE, last.dest).value

\* C9: the client has no debug flag (lines 83-89), so none is ever set: no
\* call writes anything to standard output.
CounterC9 == last.out = <<>>

\* C10: when do returns, every response body the transport opened has been
\* closed, and no body was closed that was never opened.
TheoremC10 == last.sent => last.closed = last.opened

\* do returned a decode error after the transport had opened a body
WitnessC10 ==
  /\ last.sent
  /\ last.op \in ResourceOps
  /\ last.opened = 1
  /\ last.doErr \in {"syntax", "type", "read"}

====
